---------------------------- MODULE Spec2Model ----------------------------
(***************************************************************************)
(* A model of the rmp-ipc (bromine) core:                                  *)
(*   - the encrypted stream adapter, src/protocol/encrypted/io_impl.rs     *)
(*     (EncryptedWriteStream, EncryptedReadStream), specifications         *)
(*     SpecEnc, SpecShutdown and SpecRead;                                 *)
(*   - the payload codec, src/events/payload.rs, specifications            *)
(*     SpecPayload and SpecTandem;                                         *)
(*   - the reply correlator, dispatcher and writer task, which are not     *)
(*     part of the sources at hand and are modelled from spec.md,          *)
(*     specifications SpecIpc, SpecIpcFair and SpecAuth.                   *)
(***************************************************************************)
EXTENDS Integers, Sequences, FiniteSets, TLC

VARIABLES
    \* EncryptedWriteStream fields
    buffer,        \* self.buffer: plaintext not yet handed to a future
    w_inner,       \* self.inner.is_some() of the write stream
    w_cipher,      \* self.cipher.is_some() of the write stream
    fut_write,     \* self.fut_write
    fut_flush,     \* self.fut_flush
    fut_shutdown,  \* self.fut_shutdown
    \* the inner writer / transport between the two halves
    wire,          \* packages completely written to the inner writer, in order
    flushed,       \* number of packages on the wire when the inner writer last completed a flush
    closed,        \* the inner writer completed shutdown()
    \* observation of the calls made on the write stream
    w_panic,       \* "no", or the place where a call on the write stream panicked
    lastCall,      \* the last call on the write stream and what it returned
    w_waker,       \* the last call polled an inner future with the caller's waker and it returned Pending
    accepted,      \* bytes of the calls to poll_write that returned Ready(Ok(n))
    errored,       \* some call on the write stream returned Ready(Err)
    abandoned,     \* some call that returned Pending was followed by another call
    nbuf,          \* number of distinct caller buffers handed to poll_write
    wcalls,        \* number of poll_write calls made
    \* EncryptedReadStream fields
    remaining,     \* self.remaining: decrypted plaintext not yet delivered
    r_inner,       \* self.inner.is_some() of the read stream
    r_cipher,      \* self.cipher.is_some() of the read stream
    fut,           \* self.fut: "None", "Some" (in flight) or "Done" (completed, still in the slot)
    rpos,          \* number of packages the inner reader has consumed from the wire
    \* observation of the calls made on the read stream
    r_panic,       \* "no", or the place where poll_read panicked
    lastRead,      \* the last poll_read: capacity of the caller buffer, bytes put into it, return value
    r_waker,       \* the last poll_read polled the inner future with the caller's waker and it returned Pending
    yielded,       \* all bytes put into caller buffers, in call order
    rcalls,        \* number of poll_read calls made
    \* payload codec
    p_in,          \* the payload handed to to_payload_bytes
    p_bytes,       \* the bytes to_payload_bytes returned
    p_out,         \* what from_payload_bytes returned for them
    p_pc,          \* "new", "encoded", "damaged", "decoded", "decoded damaged"
    \* dispatcher, reply correlator and writer task of one peer (spec.md 4.4, 4.5)
    d_state,       \* Starting, Handshaking, Running, Closing, Closed
    encrypted,     \* the transport is the encrypted overlay
    next_id,       \* the id the next enqueue assigns
    channel,       \* the writer channel: events accepted and not yet taken by the writer task
    writing,       \* the event whose frame the writer task is writing, or NoEvent
    wire_out,      \* the chunks (header, payload) the writer task has put on the wire
    accept_log,    \* the events in the order the writer channel accepted them
    slots,         \* the correlator: reply slots [id, deadline]
    registered,    \* ids for which await_reply registered a slot
    outcomes,      \* per id, the outcomes its waiter received
    handled,       \* inbound events handed to a handler
    consumed,      \* inbound events the read loop decoded, with the slots held at that moment
    inbound,       \* frames sent by the remote peer and not yet decoded by the read loop
    now,           \* the clock of the expiry sweeper
    rl_exited,     \* the read loop has exited
    drained,       \* teardown has run drain_all
    cancelled,     \* teardown has triggered the cancellation token
    at_close,      \* ids of the slots outstanding when the connection left Running
    \* the remote peer
    remote_read,   \* frames of wire_out the remote read loop has decoded
    remote_next_id,\* the id the remote's next enqueue assigns
    answers        \* per local event id, the response the remote handler emitted for it

encVars == <<buffer, w_inner, w_cipher, fut_write, fut_flush, fut_shutdown,
             wire, flushed, closed, w_panic, lastCall, w_waker, accepted, errored,
             abandoned, nbuf, wcalls>>

readVars == <<remaining, r_inner, r_cipher, fut, rpos, r_panic, lastRead, r_waker, yielded,
              rcalls>>

payVars == <<p_in, p_bytes, p_out, p_pc>>

ipcVars == <<d_state, encrypted, next_id, channel, writing, wire_out, accept_log, slots,
             registered, outcomes, handled, consumed, inbound, now, rl_exited, drained,
             cancelled, at_close, remote_read, remote_next_id, answers>>

vars == <<encVars, readVars, payVars, ipcVars>>

-----------------------------------------------------------------------------
(* Bounds of the model *)

\* poll_write calls made on one stream
MaxWriteCalls == 3

\* io_impl.rs:14
WRITE_BUF_SIZE == 1024

\* lengths of the caller buffers handed to poll_write
WriteLens == {0, 1, WRITE_BUF_SIZE - 1, WRITE_BUF_SIZE}

\* what the inner writer does with a write_all, a flush, a shutdown during one poll
Progress == {"pending", "ok", "err"}
InnerOutcome == [write : Progress, flush : Progress, shutdown : Progress]
\* poll_write polls only a write_all
WriteOutcome == {o \in InnerOutcome : o.flush = "ok" /\ o.shutdown = "ok"}
\* poll_flush polls a write_all and a flush
FlushOutcome == {o \in InnerOutcome : o.shutdown = "ok"}

\* packages on the wire when the read stream is studied on its own
MaxPackages == 2

\* plaintext lengths of those packages
PackageLens == {1, WRITE_BUF_SIZE + 1}

\* capacities (buf.remaining()) of the caller buffers handed to poll_read
ReadCaps == {0, 1, WRITE_BUF_SIZE}

\* poll_read calls made on one stream
MaxReadCalls == 4

\* events one peer emits on a connection
MaxEvents == 2

\* capacity of the bounded writer channel
ChannelCap == 2

\* ticks of the sweeper's clock
MaxTime == 1

\* ticks a waiter allows for its reply
ReplyTimeout == 1

-----------------------------------------------------------------------------
(* Byte strings.  A byte is identified by the caller buffer it comes from   *)
(* and its offset in it; a byte string is a sequence of segments            *)
(* [id, lo, hi) of consecutive bytes of one caller buffer.  Two byte        *)
(* strings are equal iff they hold the same bytes in the same order.        *)

Seg(id, lo, hi) == [id |-> id, lo |-> lo, hi |-> hi]

\* the whole caller buffer number id, of len bytes
CallerBuf(id, len) == IF len = 0 THEN <<>> ELSE <<Seg(id, 0, len)>>

RECURSIVE BLen(_)
BLen(s) == IF s = <<>> THEN 0 ELSE (Head(s).hi - Head(s).lo) + BLen(Tail(s))

Min(a, b) == IF a <= b THEN a ELSE b

\* BufMut::put(src): append the bytes of src
Put(a, b) ==
    IF a = <<>> THEN b
    ELSE IF b = <<>> THEN a
    ELSE LET l == a[Len(a)]
             h == Head(b)
         IN IF l.id = h.id /\ l.hi = h.lo
            THEN SubSeq(a, 1, Len(a) - 1) \o <<Seg(l.id, l.lo, h.hi)>> \o Tail(b)
            ELSE a \o b

\* Buf::copy_to_bytes(n): the first n bytes ...
RECURSIVE CopyToBytes(_, _)
CopyToBytes(s, n) ==
    IF n = 0 \/ s = <<>> THEN <<>>
    ELSE LET h == Head(s)
             l == h.hi - h.lo
         IN IF l <= n THEN <<h>> \o CopyToBytes(Tail(s), n - l)
            ELSE <<Seg(h.id, h.lo, h.lo + n)>>

\* ... and what copy_to_bytes(n) leaves in the buffer
RECURSIVE Advance(_, _)
Advance(s, n) ==
    IF n = 0 \/ s = <<>> THEN s
    ELSE LET h == Head(s)
             l == h.hi - h.lo
         IN IF l <= n THEN Advance(Tail(s), n - l)
            ELSE <<Seg(h.id, h.lo + n, h.hi)>> \o Tail(s)

-----------------------------------------------------------------------------
(* Cipher and package (crypt_handling.rs and EncryptedPackage are not among *)
(* the sources; modelled from spec.md 4.3)                                  *)

\* CipherBox::encrypt: an authenticated ciphertext of the plaintext
Encrypt(pt) == [enc |-> pt, auth |-> TRUE]

\* CipherBox::decrypt: the plaintext, or an error when authentication fails
Decrypt(ct) == IF ct.auth THEN [ok |-> TRUE, bytes |-> ct.enc]
               ELSE [ok |-> FALSE, bytes |-> <<>>]

\* EncryptedPackage::new(ct).into_bytes(): u32 BE length || ciphertext.
\* by records which call built the package (observation only).
EncryptedPackage(ct, by) == [length |-> BLen(ct.enc), ciphertext |-> ct, by |-> by]

-----------------------------------------------------------------------------
(* EncryptedWriteStream *)

NoFut == [st |-> "None", pt |-> <<>>]
Fut(st, pt) == [st |-> st, pt |-> pt]

\* the write stream and its inner writer as one value, so that the
\* statements of a call compose
WState == [buffer |-> buffer, inner |-> w_inner, cipher |-> w_cipher,
           fut_write |-> fut_write, fut_flush |-> fut_flush,
           fut_shutdown |-> fut_shutdown,
           wire |-> wire, flushed |-> flushed, closed |-> closed,
           panic |-> "no", res |-> "Ok", ret |-> "ReadyOk", waker |-> FALSE]

Panic(s, where) == [s EXCEPT !.panic = where, !.ret = "Panic"]

\* one poll of write_bytes(bytes, writer, cipher): res is Pending, Ok or Err
write_bytes(s, bytes, by, o) ==
    CASE o.write = "pending" -> [s EXCEPT !.res = "Pending"]
      [] o.write = "err"     -> [s EXCEPT !.res = "Err"]
      [] OTHER -> [s EXCEPT !.wire = Append(s.wire, EncryptedPackage(Encrypt(bytes), by)),
                            !.res = "Ok"]

\* the threshold test of poll_write, with the threshold forgotten: a package
\* is started as soon as anything is buffered
write_threshold_any(s) == s.fut_write.st = "None" /\ BLen(s.buffer) >= 1

\* the threshold test of poll_write
write_threshold(s) == s.fut_write.st = "None" /\ BLen(s.buffer) >= WRITE_BUF_SIZE

poll_write(s, buf, o) ==
    LET s1 == IF BLen(buf) > 0 THEN [s EXCEPT !.buffer = Put(s.buffer, buf)] ELSE s
        start == BLen(buf) > 0 /\ write_threshold(s1)
        plaintext == CopyToBytes(s1.buffer, BLen(s1.buffer))
        s2 == IF ~start THEN s1
              ELSE LET t == [s1 EXCEPT !.buffer = Advance(s1.buffer, BLen(s1.buffer))]
                   IN IF ~t.inner THEN Panic(t, "poll_write: inner.take().unwrap()")
                      ELSE IF ~t.cipher
                           THEN Panic([t EXCEPT !.inner = FALSE], "poll_write: cipher.take().unwrap()")
                      ELSE [t EXCEPT !.inner = FALSE, !.cipher = FALSE,
                                     !.fut_write = Fut("write", plaintext)]
    IN IF s2.panic # "no" THEN s2
       ELSE IF s2.fut_write.st # "None"
       THEN LET r == write_bytes(s2, s2.fut_write.pt, "poll_write", o)
            IN IF r.res = "Pending" THEN [r EXCEPT !.ret = "Pending", !.waker = TRUE]
               ELSE [r EXCEPT !.inner = TRUE, !.cipher = TRUE, !.fut_write = NoFut,
                              !.ret = IF r.res = "Ok" THEN "ReadyOk" ELSE "ReadyErr"]
       ELSE [s2 EXCEPT !.ret = "ReadyOk"]

\* one poll of the future built by poll_flush: write_bytes, then writer.flush()
flush_future(s, o) ==
    LET w == IF s.fut_flush.st = "write"
             THEN write_bytes(s, s.fut_flush.pt, "poll_flush", o)
             ELSE [s EXCEPT !.res = "Ok"]
    IN IF w.res # "Ok" THEN w
       ELSE CASE o.flush = "pending" -> [w EXCEPT !.fut_flush = Fut("flush", <<>>),
                                                  !.res = "Pending"]
              [] o.flush = "err"     -> [w EXCEPT !.res = "Err"]
              [] OTHER               -> [w EXCEPT !.flushed = Len(w.wire), !.res = "Ok"]

\* the test of poll_flush that starts a flush future
flush_starts(s) == s.buffer # <<>> /\ s.fut_flush.st = "None"

poll_flush(s, o) ==
    LET buffer_len == BLen(s.buffer)
        plaintext == CopyToBytes(s.buffer, buffer_len)
        s1 == IF ~flush_starts(s) THEN s
              ELSE LET t == [s EXCEPT !.buffer = Advance(s.buffer, buffer_len)]
                   IN IF ~t.inner THEN Panic(t, "poll_flush: inner.take().unwrap()")
                      ELSE IF ~t.cipher
                           THEN Panic([t EXCEPT !.inner = FALSE], "poll_flush: cipher.take().unwrap()")
                      ELSE [t EXCEPT !.inner = FALSE, !.cipher = FALSE,
                                     !.fut_flush = Fut("write", plaintext)]
    IN IF s1.panic # "no" THEN s1
       ELSE IF s1.fut_flush.st = "None"
       THEN Panic(s1, "poll_flush: fut_flush.as_mut().unwrap()")
       ELSE LET r == flush_future(s1, o)
            IN IF r.res = "Pending" THEN [r EXCEPT !.ret = "Pending", !.waker = TRUE]
               ELSE [r EXCEPT !.inner = TRUE, !.cipher = TRUE, !.fut_flush = NoFut,
                              !.ret = IF r.res = "Ok" THEN "ReadyOk" ELSE "ReadyErr"]

poll_shutdown(s, o) ==
    IF s.fut_shutdown.st = "None"
    THEN LET r == poll_flush(s, o)
         IN CASE r.ret = "ReadyOk" ->
                   IF ~r.inner THEN Panic(r, "poll_shutdown: inner.take().unwrap()")
                   ELSE [r EXCEPT !.inner = FALSE, !.fut_shutdown = Fut("shutdown", <<>>),
                                  !.ret = "Pending"]
              [] OTHER -> r
    ELSE CASE o.shutdown = "pending" -> [s EXCEPT !.ret = "Pending", !.waker = TRUE]
           [] o.shutdown = "err"     -> [s EXCEPT !.fut_shutdown = NoFut, !.ret = "ReadyErr"]
           [] OTHER -> [s EXCEPT !.fut_shutdown = NoFut, !.closed = TRUE, !.ret = "ReadyOk"]

-----------------------------------------------------------------------------
(* Calls on the write stream *)

Call(op, buf, ret) == [op |-> op, buf |-> buf, ret |-> ret]

\* the fields of the stream after a call that ended in state r
WriteStreamBecomes(r) ==
    /\ buffer' = r.buffer
    /\ w_inner' = r.inner
    /\ w_cipher' = r.cipher
    /\ fut_write' = r.fut_write
    /\ fut_flush' = r.fut_flush
    /\ fut_shutdown' = r.fut_shutdown
    /\ wire' = r.wire
    /\ flushed' = r.flushed
    /\ closed' = r.closed
    /\ w_panic' = r.panic
    /\ w_waker' = r.waker
    /\ errored' = (errored \/ r.ret = "ReadyErr")

\* the caller drops a call that returned Pending when it makes another call
Abandons(op) == lastCall.ret = "Pending" /\ lastCall.op # op

\* poll_write with a caller buffer not seen before
PollWriteNew(len, o) ==
    /\ w_panic = "no"
    /\ wcalls < MaxWriteCalls
    /\ LET id == nbuf + 1
           buf == CallerBuf(id, len)
           r == poll_write(WState, buf, o)
       IN /\ WriteStreamBecomes(r)
          /\ lastCall' = Call("write", buf, r.ret)
          /\ accepted' = IF r.ret = "ReadyOk" THEN Put(accepted, buf) ELSE accepted
    /\ abandoned' = (abandoned \/ lastCall.ret = "Pending")
    /\ nbuf' = nbuf + 1
    /\ wcalls' = wcalls + 1
    /\ UNCHANGED <<readVars, payVars, ipcVars>>

\* poll_write returned Pending and is polled again with the same caller buffer
PollWriteAgain(o) ==
    /\ w_panic = "no"
    /\ wcalls < MaxWriteCalls
    /\ lastCall.op = "write" /\ lastCall.ret = "Pending"
    /\ LET buf == lastCall.buf
           r == poll_write(WState, buf, o)
       IN /\ WriteStreamBecomes(r)
          /\ lastCall' = Call("write", buf, r.ret)
          /\ accepted' = IF r.ret = "ReadyOk" THEN Put(accepted, buf) ELSE accepted
    /\ wcalls' = wcalls + 1
    /\ UNCHANGED <<nbuf, abandoned>>
    /\ UNCHANGED <<readVars, payVars, ipcVars>>

PollFlush(o) ==
    /\ w_panic = "no"
    /\ LET r == poll_flush(WState, o)
       IN /\ WriteStreamBecomes(r)
          /\ lastCall' = Call("flush", <<>>, r.ret)
    /\ abandoned' = (abandoned \/ Abandons("flush"))
    /\ UNCHANGED <<accepted, nbuf, wcalls>>
    /\ UNCHANGED <<readVars, payVars, ipcVars>>

PollShutdown(o) ==
    /\ w_panic = "no"
    /\ LET r == poll_shutdown(WState, o)
       IN /\ WriteStreamBecomes(r)
          /\ lastCall' = Call("shutdown", <<>>, r.ret)
    /\ abandoned' = (abandoned \/ Abandons("shutdown"))
    /\ UNCHANGED <<accepted, nbuf, wcalls>>
    /\ UNCHANGED <<readVars, payVars, ipcVars>>


-----------------------------------------------------------------------------
(* EncryptedReadStream *)

RState == [remaining |-> remaining, inner |-> r_inner, cipher |-> r_cipher,
           fut |-> fut, rpos |-> rpos,
           filled |-> <<>>, panic |-> "no", res |-> "Ok", bytes |-> <<>>, ret |-> "ReadyOk",
           waker |-> FALSE]

\* the future of poll_read without the authentication check of decrypt: the
\* bytes of a package are handed on whether or not they are authentic
read_future_unchecked(s, o) ==
    IF s.rpos = Len(wire)
    THEN IF closed THEN [s EXCEPT !.res = "Err"] ELSE [s EXCEPT !.res = "Pending"]
    ELSE CASE o = "pending" -> [s EXCEPT !.res = "Pending"]
           [] o = "err"     -> [s EXCEPT !.res = "Err"]
           [] OTHER -> [s EXCEPT !.rpos = s.rpos + 1, !.res = "Ok",
                                 !.bytes = wire[s.rpos + 1].ciphertext.enc]

\* one poll of the future built by poll_read: EncryptedPackage::from_async_read
\* on the inner reader, then cipher.decrypt.  o is what the inner reader does.
read_future(s, o) ==
    IF s.rpos = Len(wire)
    THEN IF closed THEN [s EXCEPT !.res = "Err"]          \* end of stream inside a package
         ELSE [s EXCEPT !.res = "Pending"]                \* nothing has arrived
    ELSE CASE o = "pending" -> [s EXCEPT !.res = "Pending"]
           [] o = "err"     -> [s EXCEPT !.res = "Err"]
           [] OTHER ->
                LET d == Decrypt(wire[s.rpos + 1].ciphertext)
                IN IF d.ok THEN [s EXCEPT !.rpos = s.rpos + 1, !.res = "Ok", !.bytes = d.bytes]
                   ELSE [s EXCEPT !.rpos = s.rpos + 1, !.res = "Err"]

\* the copy into the caller buffer without consuming self.remaining
deliver_keeps(s, cap) ==
    LET max_copy == Min(cap - BLen(s.filled), BLen(s.remaining))
    IN [s EXCEPT !.filled = Put(s.filled, CopyToBytes(s.remaining, max_copy))]

\* copy min(buf.remaining(), remaining.len()) bytes of self.remaining into the
\* caller buffer of capacity cap
deliver(s, cap) ==
    LET max_copy == Min(cap - BLen(s.filled), BLen(s.remaining))
        bytes == CopyToBytes(s.remaining, max_copy)
    IN [s EXCEPT !.remaining = Advance(s.remaining, max_copy),
                 !.filled = Put(s.filled, bytes)]

poll_read(s, cap, o) ==
    LET s1 == IF s.fut # "None" THEN s
              ELSE LET t == deliver(s, cap)
                   IN IF cap - BLen(t.filled) > 0
                      THEN IF ~t.inner THEN Panic(t, "poll_read: inner.take().unwrap()")
                           ELSE IF ~t.cipher
                                THEN Panic([t EXCEPT !.inner = FALSE], "poll_read: cipher.take().unwrap()")
                           ELSE [t EXCEPT !.inner = FALSE, !.cipher = FALSE, !.fut = "Some"]
                      ELSE t
    IN IF s1.panic # "no" THEN s1
       ELSE IF s1.fut = "None" THEN [s1 EXCEPT !.ret = "ReadyOk"]
       ELSE IF s1.fut = "Done" THEN Panic(s1, "poll_read: future polled after completion")
       ELSE LET r == read_future(s1, o)
            IN CASE r.res = "Pending" -> [r EXCEPT !.ret = "Pending", !.waker = TRUE]
                 [] r.res = "Ok" ->
                      LET u == deliver([r EXCEPT !.inner = TRUE, !.cipher = TRUE,
                                                 !.remaining = Put(r.remaining, r.bytes)], cap)
                      IN [u EXCEPT !.fut = "None",
                                   !.ret = IF cap - BLen(u.filled) = 0 THEN "ReadyOk"
                                           ELSE "Pending"]
                 [] OTHER -> [r EXCEPT !.inner = TRUE, !.cipher = TRUE, !.fut = "Done",
                                       !.ret = "ReadyErr"]

-----------------------------------------------------------------------------
(* Calls on the read stream, and the network *)

PollRead(cap, o) ==
    /\ r_panic = "no"
    /\ rcalls < MaxReadCalls
    /\ rcalls' = rcalls + 1
    /\ LET r == poll_read(RState, cap, o)
       IN /\ remaining' = r.remaining
          /\ r_inner' = r.inner
          /\ r_cipher' = r.cipher
          /\ fut' = r.fut
          /\ rpos' = r.rpos
          /\ r_panic' = r.panic
          /\ lastRead' = [cap |-> cap, filled |-> r.filled, ret |-> r.ret]
          /\ r_waker' = r.waker
          /\ yielded' = Put(yielded, r.filled)
    /\ UNCHANGED <<encVars, payVars, ipcVars>>

\* an adversary flips a byte of a package the reader has not consumed yet
Tamper(i) ==
    /\ r_panic = "no"
    /\ i \in (rpos + 1)..Len(wire)
    /\ wire[i].ciphertext.auth
    /\ wire' = [wire EXCEPT ![i].ciphertext.auth = FALSE]
    /\ UNCHANGED <<buffer, w_inner, w_cipher, fut_write, fut_flush, fut_shutdown,
                   flushed, closed, w_panic, lastCall, w_waker, accepted, errored,
                   abandoned, nbuf, wcalls>>
    /\ UNCHANGED <<readVars, payVars, ipcVars>>

-----------------------------------------------------------------------------
(* Specifications of the encrypted stream *)

WriterInit ==
    /\ buffer = <<>>
    /\ w_inner = TRUE
    /\ w_cipher = TRUE
    /\ fut_write = NoFut
    /\ fut_flush = NoFut
    /\ fut_shutdown = NoFut
    /\ flushed = 0
    /\ w_panic = "no"
    /\ lastCall = Call("none", <<>>, "ReadyOk")
    /\ w_waker = FALSE
    /\ accepted = <<>>
    /\ errored = FALSE
    /\ abandoned = FALSE
    /\ nbuf = 0
    /\ wcalls = 0

ReaderInit ==
    /\ remaining = <<>>
    /\ r_inner = TRUE
    /\ r_cipher = TRUE
    /\ fut = "None"
    /\ rpos = 0
    /\ r_panic = "no"
    /\ lastRead = [cap |-> 0, filled |-> <<>>, ret |-> "ReadyOk"]
    /\ r_waker = FALSE
    /\ yielded = <<>>
    /\ rcalls = 0

\* the payload codec at rest
PayloadIdle ==
    /\ p_in = [kind |-> "Byte", bytes |-> <<>>]
    /\ p_bytes = <<>>
    /\ p_out = [ok |-> FALSE]
    /\ p_pc = "idle"

\* no connection
IpcIdle ==
    /\ d_state = "Starting"
    /\ encrypted = TRUE
    /\ next_id = 1
    /\ channel = <<>>
    /\ writing = [id |-> 0]
    /\ wire_out = <<>>
    /\ accept_log = <<>>
    /\ slots = {}
    /\ registered = {}
    /\ outcomes = <<>>
    /\ handled = <<>>
    /\ consumed = <<>>
    /\ inbound = <<>>
    /\ now = 0
    /\ rl_exited = FALSE
    /\ drained = FALSE
    /\ cancelled = FALSE
    /\ at_close = {}
    /\ remote_read = 0
    /\ remote_next_id = 1
    /\ answers = <<>>

\* the write stream over an inner writer
EncInit ==
    /\ WriterInit
    /\ wire = <<>>
    /\ closed = FALSE
    /\ ReaderInit
    /\ PayloadIdle
    /\ IpcIdle

EncNext ==
    \/ \E len \in WriteLens, o \in WriteOutcome : PollWriteNew(len, o)
    \/ \E o \in WriteOutcome : PollWriteAgain(o)
    \/ \E o \in FlushOutcome : PollFlush(o)
    \/ \E o \in InnerOutcome : PollShutdown(o)

SpecEnc == EncInit /\ [][EncNext]_vars

\* an inner writer that may make the caller wait but fails nothing
Completing(os) == {o \in os : o.write # "err" /\ o.flush # "err" /\ o.shutdown # "err"}

\* the inner writer completes what it is asked to do
AllOk == [write |-> "ok", flush |-> "ok", shutdown |-> "ok"]

\* no shutdown has been asked for yet
BeforeShutdown == lastCall.op # "shutdown"

\* the caller of shutdown(): the first poll_shutdown, then another one only
\* after a Pending that left the caller's waker with a pending inner future
ShutdownPoll(o) ==
    /\ ~BeforeShutdown => (lastCall.ret = "Pending" /\ w_waker)
    /\ PollShutdown(o)

ShutdownNext ==
    \/ BeforeShutdown /\ \E len \in WriteLens, o \in Completing(WriteOutcome) : PollWriteNew(len, o)
    \/ BeforeShutdown /\ \E o \in Completing(WriteOutcome) : PollWriteAgain(o)
    \/ BeforeShutdown /\ \E o \in Completing(FlushOutcome) : PollFlush(o)
    \/ \E o \in Completing(InnerOutcome) : ShutdownPoll(o)

\* a caller that was woken polls again, and the inner writer eventually
\* completes what the poll asks of it
ShutdownFairness == WF_vars(ShutdownPoll(AllOk))

\* a write stream that is written to, flushed and then shut down over an
\* inner writer that completes every operation
SpecShutdown == EncInit /\ [][ShutdownNext]_vars /\ ShutdownFairness

\* package number i as the paired write stream builds it
SentPackage(i, len) ==
    EncryptedPackage(Encrypt(CallerBuf(i, len)),
                     IF len >= WRITE_BUF_SIZE THEN "poll_write" ELSE "poll_flush")

\* the packages a peer may have sent
Wires == UNION {[1..n -> PackageLens] : n \in 0..MaxPackages}

\* the read stream over an inner reader that receives what a peer has sent
ReadInit ==
    /\ WriterInit
    /\ \E lens \in Wires : wire = [i \in 1..Len(lens) |-> SentPackage(i, lens[i])]
    /\ closed \in BOOLEAN
    /\ ReaderInit
    /\ PayloadIdle
    /\ IpcIdle

ReadNext ==
    \/ \E cap \in ReadCaps, o \in Progress : PollRead(cap, o)
    \/ \E i \in 1..MaxPackages : Tamper(i)

SpecRead == ReadInit /\ [][ReadNext]_vars

-----------------------------------------------------------------------------
(* Payload codec, src/events/payload.rs.  Bytes are numbers 0..255. *)

\* the byte vectors of the model
ByteStrings == {<<>>, <<0>>, <<255>>, <<1, 0>>}

\* DynamicSerializer and the values it serializes are not among the sources;
\* modelled from spec.md 3 ("u8 format-id || serializer.encode(T)")
Serializers == {"Messagepack", "Bincode"}
SerdeData == {7, 200}

BytePayload(bytes) == [kind |-> "Byte", bytes |-> bytes]
TandemPayload(load1, load2) == [kind |-> "Tandem", load1 |-> load1, load2 |-> load2]
SerdePayload(serializer, data) == [kind |-> "Serde", serializer |-> serializer, data |-> data]

\* the type at which from_payload_bytes is called for a payload
ByteT == [kind |-> "Byte"]
TandemT(t1, t2) == [kind |-> "Tandem", t1 |-> t1, t2 |-> t2]
SerdeT == [kind |-> "Serde"]

RECURSIVE TypeOf(_)
TypeOf(P) == CASE P.kind = "Byte"   -> ByteT
               [] P.kind = "Tandem" -> TandemT(TypeOf(P.load1), TypeOf(P.load2))
               [] OTHER             -> SerdeT

\* self.serializer as u8
format_id(serializer) == IF serializer = "Messagepack" THEN 0 ELSE 1

\* DynamicSerializer::from_primitive
from_primitive(id) == CASE id = 0 -> [ok |-> TRUE, val |-> "Messagepack"]
                        [] id = 1 -> [ok |-> TRUE, val |-> "Bincode"]
                        [] OTHER  -> [ok |-> FALSE]

\* serializer.serialize(data) of a u8: MessagePack writes a positive fixint or
\* 0xcc and the byte, bincode the byte
serialize(serializer, data) ==
    IF serializer = "Messagepack" /\ data >= 128 THEN <<204, data>> ELSE <<data>>

\* serializer.deserialize(reader) of a u8
deserialize(serializer, r) ==
    IF r = <<>> THEN [ok |-> FALSE]
    ELSE IF serializer = "Bincode" THEN [ok |-> TRUE, val |-> r[1]]
    ELSE IF r[1] < 128 THEN [ok |-> TRUE, val |-> r[1]]
    ELSE IF r[1] = 204 /\ Len(r) >= 2 THEN [ok |-> TRUE, val |-> r[2]]
    ELSE [ok |-> FALSE]

\* (n as u64).to_be_bytes(), for n < 2^31
to_be_bytes(n) == <<0, 0, 0, 0, (n \div 16777216) % 256, (n \div 65536) % 256,
                    (n \div 256) % 256, n % 256>>

\* reader.read_u64::<BigEndian>(): the value and the rest of the reader.
\* A value of 2^31 or more is reported as huge: no blob of the model is that
\* long.  A value of 2^63 or more is over isize::MAX.
read_u64(r) ==
    IF Len(r) < 8 THEN [ok |-> FALSE]
    ELSE [ok |-> TRUE,
          huge |-> (\E i \in 1..4 : r[i] # 0) \/ r[5] >= 128,
          overflow |-> r[1] >= 128,
          val |-> ((r[5] % 128) * 16777216) + (r[6] * 65536) + (r[7] * 256) + r[8],
          rest |-> SubSeq(r, 9, Len(r))]

\* reader.read_exact(&mut vec![0u8; n])
read_exact(r, n) ==
    IF Len(r) < n THEN [ok |-> FALSE]
    ELSE [ok |-> TRUE, val |-> SubSeq(r, 1, n), rest |-> SubSeq(r, n + 1, Len(r))]

\* TandemPayload::to_payload_bytes on the encoded halves, with the second
\* length written from the first half
tandem_bytes_same_length(p1_bytes, p2_bytes) ==
    to_be_bytes(Len(p1_bytes)) \o p1_bytes \o to_be_bytes(Len(p1_bytes)) \o p2_bytes

\* TandemPayload::to_payload_bytes on the encoded halves
tandem_bytes(p1_bytes, p2_bytes) ==
    to_be_bytes(Len(p1_bytes)) \o p1_bytes \o to_be_bytes(Len(p2_bytes)) \o p2_bytes

\* SerdePayload::to_payload_bytes
serde_bytes(serializer, data) == <<format_id(serializer)>> \o serialize(serializer, data)

\* EventSendPayload::to_payload_bytes
RECURSIVE to_payload_bytes(_)
to_payload_bytes(P) ==
    CASE P.kind = "Byte"   -> P.bytes
      [] P.kind = "Tandem" -> tandem_bytes(to_payload_bytes(P.load1), to_payload_bytes(P.load2))
      [] OTHER             -> serde_bytes(P.serializer, P.data)

\* whether an allocation of 2^31 bytes or more succeeds depends on the machine
Alloc == {"ok", "fail"}

\* a call that returned Err, and a call that panicked or aborted the process
Failed == [ok |-> FALSE, abort |-> FALSE]
Aborted == [ok |-> FALSE, abort |-> TRUE]

\* vec![0u8; len as usize] for a length read from the blob: a capacity over
\* isize::MAX panics, a huge one aborts when the allocation fails
vec_zeroed(l, alloc) == IF l.overflow \/ (l.huge /\ alloc = "fail") THEN Aborted ELSE [ok |-> TRUE]

\* read_u64, vec![0u8; len], read_exact: one length-prefixed half
read_half(r, alloc) ==
    LET l == read_u64(r)
    IN IF ~l.ok THEN Failed
       ELSE IF ~vec_zeroed(l, alloc).ok THEN Aborted
       ELSE IF l.huge THEN Failed
       ELSE LET b == read_exact(l.rest, l.val)
            IN IF b.ok THEN [ok |-> TRUE, val |-> b.val, rest |-> b.rest] ELSE Failed

\* the two length-prefixed halves TandemPayload::from_payload_bytes reads
tandem_split(r, alloc) ==
    LET b1 == read_half(r, alloc)
        b2 == IF b1.ok THEN read_half(b1.rest, alloc) ELSE b1
    IN IF b2.ok THEN [ok |-> TRUE, load1_bytes |-> b1.val, load2_bytes |-> b2.val]
       ELSE b2

\* SerdePayload::from_payload_bytes
serde_from_bytes(r) ==
    IF r = <<>> THEN [ok |-> FALSE]
    ELSE LET s == from_primitive(r[1])
             d == IF s.ok THEN deserialize(s.val, Tail(r)) ELSE [ok |-> FALSE]
         IN IF d.ok THEN [ok |-> TRUE, val |-> SerdePayload(s.val, d.val)]
            ELSE [ok |-> FALSE]

\* EventReceivePayload::from_payload_bytes at type T
RECURSIVE from_payload_bytes(_, _, _)
from_payload_bytes(T, r, alloc) ==
    CASE T.kind = "Byte" -> [ok |-> TRUE, val |-> BytePayload(r)]
      [] T.kind = "Tandem" ->
           LET h == tandem_split(r, alloc)
               l1 == IF h.ok THEN from_payload_bytes(T.t1, h.load1_bytes, alloc) ELSE h
               l2 == IF l1.ok THEN from_payload_bytes(T.t2, h.load2_bytes, alloc) ELSE l1
           IN IF l2.ok THEN [ok |-> TRUE, val |-> TandemPayload(l1.val, l2.val)]
              ELSE l2
      [] OTHER -> LET d == serde_from_bytes(r) IN IF d.ok THEN d ELSE Failed

\* the payloads of the model: byte and serde payloads, tandems of them, and
\* tandems with a tandem as either half
Leaves == {BytePayload(b) : b \in ByteStrings}
          \cup {SerdePayload(s, d) : s \in Serializers, d \in SerdeData}
Tandems == {TandemPayload(a, b) : a \in Leaves, b \in Leaves}
Nested == {TandemPayload(a, b) : a \in Tandems, b \in Leaves}
          \cup {TandemPayload(a, b) : a \in Leaves, b \in Tandems}
Payloads == Leaves \cup Tandems \cup Nested

ToPayloadBytes ==
    /\ p_pc = "new"
    /\ p_bytes' = to_payload_bytes(p_in)
    /\ p_pc' = "encoded"
    /\ UNCHANGED <<p_in, p_out>>
    /\ UNCHANGED <<encVars, readVars, ipcVars>>

FromPayloadBytes ==
    /\ p_pc \in {"encoded", "damaged"}
    /\ \E alloc \in Alloc : p_out' = from_payload_bytes(TypeOf(p_in), p_bytes, alloc)
    /\ p_pc' = IF p_pc = "encoded" THEN "decoded" ELSE "decoded damaged"
    /\ UNCHANGED <<p_in, p_bytes>>
    /\ UNCHANGED <<encVars, readVars, ipcVars>>

PayloadInit ==
    /\ WriterInit /\ wire = <<>> /\ closed = FALSE
    /\ ReaderInit
    /\ IpcIdle
    /\ p_in \in Payloads
    /\ p_bytes = <<>>
    /\ p_out = [ok |-> FALSE]
    /\ p_pc = "new"

PayloadNext == ToPayloadBytes \/ FromPayloadBytes

SpecPayload == PayloadInit /\ [][PayloadNext]_vars

\* the blob arrives cut off after n bytes
Truncate(n) ==
    /\ p_pc = "encoded"
    /\ n < Len(p_bytes)
    /\ p_bytes' = SubSeq(p_bytes, 1, n)
    /\ p_pc' = "damaged"
    /\ UNCHANGED <<p_in, p_out>>
    /\ UNCHANGED <<encVars, readVars, ipcVars>>

\* the positions of the top byte and of the fifth byte of the two length
\* prefixes of a tandem blob
LengthBytes(r) ==
    LET second == 8 + read_u64(r).val
    IN {1, 5, second + 1, second + 5}

\* the blob arrives with a length prefix raised: bit 63 with its top byte,
\* bit 31 with its fifth byte
Inflate(pos) ==
    /\ p_pc = "encoded"
    /\ pos \in LengthBytes(p_bytes)
    /\ p_bytes' = [p_bytes EXCEPT ![pos] = 128]
    /\ p_pc' = "damaged"
    /\ UNCHANGED <<p_in, p_out>>
    /\ UNCHANGED <<encVars, readVars, ipcVars>>

TandemInit ==
    /\ WriterInit /\ wire = <<>> /\ closed = FALSE
    /\ ReaderInit
    /\ IpcIdle
    /\ p_in \in Tandems \cup Nested
    /\ p_bytes = <<>>
    /\ p_out = [ok |-> FALSE]
    /\ p_pc = "new"

TandemNext ==
    \/ ToPayloadBytes
    \/ \E n \in 0..(Len(p_bytes) - 1) : Truncate(n)
    \/ \E pos \in 1..Len(p_bytes) : Inflate(pos)
    \/ FromPayloadBytes

\* tandem payloads encoded, received whole or damaged, and decoded
SpecTandem == TandemInit /\ [][TandemNext]_vars

\* C2: decoding the encoding of a payload that has an encoder and a decoder
\* succeeds and yields that payload.
C2_PayloadRoundTrip == p_pc = "decoded" => (p_out.ok /\ p_out.val = p_in)

\* C2 witness: a nested tandem with an empty half has been encoded and decoded
C2_Witness ==
    /\ p_pc = "decoded"
    /\ p_in.kind = "Tandem"
    /\ p_in.load1.kind = "Tandem"
    /\ p_in.load1.load2.kind = "Serde"
    /\ p_in.load2 = BytePayload(<<>>)
    /\ p_out.ok

-----------------------------------------------------------------------------
(* Dispatcher, reply correlator and writer task.  Their code is not among   *)
(* the sources; they are modelled from spec.md 3, 4.4, 4.5, 5 and 7.  The   *)
(* ping handler and the client call are those of the examples in lib.rs.    *)

Ids == 1..MaxEvents

\* spec.md 3, Event
Event(id, event_type, reference_id, name) ==
    [id |-> id, event_type |-> event_type, reference_id |-> reference_id,
     namespace |-> "", name |-> name, payload |-> <<>>]

NoEvent == Event(0, "none", 0, "")

\* the names the local user code emits: "ping" has a handler on the remote peer
EmitNames == {"ping", "nope"}

\* the handlers registered on the local peer (global namespace)
LocalHandlers == {"pong"}

\* what a waiter receives
Response(e) == [kind |-> "Response", ev |-> e]
Failure(kind) == [kind |-> kind, ev |-> NoEvent]

\* the frame of an event as the writer task writes it: fixed header with the
\* names, then the payload
Frame(e) == <<[part |-> "header", ev |-> e], [part |-> "payload", ev |-> e]>>

RECURSIVE Frames(_)
Frames(es) == IF es = <<>> THEN <<>> ELSE Frame(Head(es)) \o Frames(Tail(es))

IsPrefix(a, b) == Len(a) <= Len(b) /\ SubSeq(b, 1, Len(a)) = a

SlotIds(c) == {s.id : s \in c}

\* correlator.register(id, deadline)
register(c, id, deadline) == c \cup {[id |-> id, deadline |-> deadline]}

\* correlator.resolve(id, event) with the slot left in the map
resolve_keeps_slot(c, id) == c

\* correlator.resolve(id, event): the slot is removed (the event goes to its waiter)
resolve(c, id) == {s \in c : s.id # id}

\* correlator.expire_due(now): the slots whose deadline has passed
due(c, t) == {s \in c : s.deadline <= t}

\* the outcomes after each waiter in ids has been sent outcome
deliver_to(out, ids, outcome) ==
    [k \in DOMAIN out |-> IF k \in ids THEN Append(out[k], outcome) ELSE out[k]]

IpcUnchangedOthers == UNCHANGED <<encVars, readVars, payVars>>

\* Starting -> Handshaking on connect/accept; skipped for an unencrypted transport
Connect ==
    /\ d_state = "Starting"
    /\ d_state' = IF encrypted THEN "Handshaking" ELSE "Running"
    /\ UNCHANGED <<encrypted, next_id, channel, writing, wire_out, accept_log, slots,
                   registered, outcomes, handled, consumed, inbound, now, rl_exited,
                   drained, cancelled, at_close, remote_read, remote_next_id, answers>>
    /\ IpcUnchangedOthers

\* Handshaking -> Running on success, -> Closed on failure
Handshake(ok) ==
    /\ d_state = "Handshaking"
    /\ d_state' = IF ok THEN "Running" ELSE "Closed"
    /\ UNCHANGED <<encrypted, next_id, channel, writing, wire_out, accept_log, slots,
                   registered, outcomes, handled, consumed, inbound, now, rl_exited,
                   drained, cancelled, at_close, remote_read, remote_next_id, answers>>
    /\ IpcUnchangedOthers

\* the writer channel accepts an event: the enqueue assigns the next id
enqueue(event_type, reference_id, name) ==
    LET e == Event(next_id, event_type, reference_id, name)
    IN /\ next_id <= MaxEvents
       /\ Len(channel) < ChannelCap
       /\ channel' = Append(channel, e)
       /\ accept_log' = Append(accept_log, e)
       /\ next_id' = next_id + 1

\* ctx.emitter.emit(name, ()) of lib.rs:56: an initial event
Emit(name) ==
    /\ d_state = "Running"
    /\ enqueue("initial", 0, name)
    /\ UNCHANGED <<d_state, encrypted, writing, wire_out, slots, registered, outcomes,
                   handled, consumed, inbound, now, rl_exited, drained, cancelled,
                   at_close, remote_read, remote_next_id, answers>>
    /\ IpcUnchangedOthers

\* EmitMetadata.await_reply of lib.rs:56: registers a slot for an emitted id
AwaitReply(k) ==
    /\ d_state = "Running"
    /\ k < next_id
    /\ k \notin registered
    /\ accept_log[k].event_type = "initial"
    /\ slots' = register(slots, k, now + ReplyTimeout)
    /\ registered' = registered \cup {k}
    /\ UNCHANGED <<d_state, encrypted, next_id, channel, writing, wire_out, accept_log,
                   outcomes, handled, consumed, inbound, now, rl_exited, drained,
                   cancelled, at_close, remote_read, remote_next_id, answers>>
    /\ IpcUnchangedOthers

\* the writer task takes the newest event of the channel instead of the oldest
writer_takes_last(ch) == [ev |-> ch[Len(ch)], rest |-> SubSeq(ch, 1, Len(ch) - 1)]

\* the writer task takes the next event of the channel
writer_takes(ch) == [ev |-> Head(ch), rest |-> Tail(ch)]

\* the single writer task starts a frame: it writes the header
WriterStart ==
    /\ d_state \in {"Running", "Closing"}
    /\ writing = NoEvent
    /\ channel # <<>>
    /\ LET w == writer_takes(channel)
       IN /\ writing' = w.ev
          /\ channel' = w.rest
          /\ wire_out' = Append(wire_out, Frame(w.ev)[1])
    /\ UNCHANGED <<d_state, encrypted, next_id, accept_log, slots, registered, outcomes,
                   handled, consumed, inbound, now, rl_exited, drained, cancelled,
                   at_close, remote_read, remote_next_id, answers>>
    /\ IpcUnchangedOthers

\* ... and finishes it: it writes the payload
WriterFinish ==
    /\ d_state \in {"Running", "Closing"}
    /\ writing # NoEvent
    /\ wire_out' = Append(wire_out, Frame(writing)[2])
    /\ writing' = NoEvent
    /\ UNCHANGED <<d_state, encrypted, next_id, channel, accept_log, slots, registered,
                   outcomes, handled, consumed, inbound, now, rl_exited, drained,
                   cancelled, at_close, remote_read, remote_next_id, answers>>
    /\ IpcUnchangedOthers

\* the response of handle_ping with the reference taken from the handler's
\* own id counter instead of event.id()
handle_ping_own_id(event, id) == Event(id, "response", id + 1, "pong")

\* handle_ping of lib.rs:9-14 (and the server callback of lib.rs:80-84):
\* ctx.emitter.emit_response(event.id(), "pong", ())
handle_ping(event, id) == Event(id, "response", event.id, "pong")

\* the remote peer decodes the next complete frame and dispatches it: "ping"
\* to handle_ping, a response to nothing, any other event to the UnknownEvent
\* error response
RemoteDispatch ==
    /\ d_state \in {"Running", "Closing"}
    /\ 2 * (remote_read + 1) <= Len(wire_out)
    /\ LET e == wire_out[2 * remote_read + 1].ev
           reply == IF e.name = "ping" THEN handle_ping(e, remote_next_id)
                    ELSE Event(remote_next_id, "response", e.id, "error")
       IN IF e.event_type = "initial"
          THEN /\ inbound' = Append(inbound, reply)
               /\ remote_next_id' = remote_next_id + 1
               /\ answers' = [answers EXCEPT ![e.id] = reply]
          ELSE UNCHANGED <<inbound, remote_next_id, answers>>
    /\ remote_read' = remote_read + 1
    /\ UNCHANGED <<d_state, encrypted, next_id, channel, writing, wire_out, accept_log,
                   slots, registered, outcomes, handled, consumed, now, rl_exited,
                   drained, cancelled, at_close>>
    /\ IpcUnchangedOthers

\* the routing of the read loop with a response that finds no slot kept away
\* from the handler lookup
route_without_lookup(e, c) ==
    IF e.event_type = "response"
    THEN IF e.reference_id \in SlotIds(c) THEN "resolve" ELSE "unknown"
    ELSE IF e.name \in LocalHandlers THEN "handler" ELSE "unknown"

\* the routing of a decoded event by the read loop: to the reply slot of its
\* reference_id, else to the handler found by name, else to UnknownEvent
route(e, c) ==
    IF e.event_type = "response" /\ e.reference_id \in SlotIds(c) THEN "resolve"
    ELSE IF e.name \in LocalHandlers THEN "handler"
    ELSE "unknown"

\* a step of the read loop (spec.md 4.5): decode a frame, then
\*  1. a response whose reference_id has a slot resolves it;
\*  2. else a handler found by name is spawned with the event;
\*  3. else an UnknownEvent error response is emitted.
ReadLoop ==
    /\ d_state \in {"Running", "Closing"}
    /\ ~rl_exited
    /\ inbound # <<>>
    /\ LET e == Head(inbound)
           to == route(e, slots)
       IN /\ inbound' = Tail(inbound)
          /\ consumed' = Append(consumed, [ev |-> e, slots |-> SlotIds(slots)])
          /\ IF to = "resolve"
             THEN /\ slots' = resolve(slots, e.reference_id)
                  /\ outcomes' = deliver_to(outcomes, {e.reference_id}, Response(e))
                  /\ UNCHANGED <<handled, channel, accept_log, next_id>>
             ELSE IF to = "handler"
             THEN /\ handled' = Append(handled, e)
                  /\ UNCHANGED <<slots, outcomes, channel, accept_log, next_id>>
             ELSE /\ enqueue("response", e.id, "error")
                  /\ UNCHANGED <<slots, outcomes, handled>>
    /\ UNCHANGED <<d_state, encrypted, writing, wire_out, registered, now, rl_exited,
                   drained, cancelled, at_close, remote_read, remote_next_id, answers>>
    /\ IpcUnchangedOthers

\* time passes; the clock matters only while a deadline is pending
Tick ==
    /\ d_state \in {"Running", "Closing"}
    /\ slots # {}
    /\ now < MaxTime
    /\ now' = now + 1
    /\ UNCHANGED <<d_state, encrypted, next_id, channel, writing, wire_out, accept_log,
                   slots, registered, outcomes, handled, consumed, inbound, rl_exited,
                   drained, cancelled, at_close, remote_read, remote_next_id, answers>>
    /\ IpcUnchangedOthers

\* the expiry sweeper: correlator.expire_due(now) removes the due slots and
\* fails their waiters with Timeout
ExpireDue ==
    /\ due(slots, now) # {}
    /\ slots' = slots \ due(slots, now)
    /\ outcomes' = deliver_to(outcomes, SlotIds(due(slots, now)), Failure("Timeout"))
    /\ UNCHANGED <<d_state, encrypted, next_id, channel, writing, wire_out, accept_log,
                   registered, handled, consumed, inbound, now, rl_exited, drained,
                   cancelled, at_close, remote_read, remote_next_id, answers>>
    /\ IpcUnchangedOthers

CloseCauses == {"eof", "parse_error", "auth_failure", "shutdown"}

\* Running -> Closing on peer EOF, a fatal frame parse error, an
\* authentication failure or a user shutdown.  The first three are found by
\* the read loop, which exits with them.
Close(cause) ==
    /\ d_state = "Running"
    /\ cause = "auth_failure" => encrypted
    /\ d_state' = "Closing"
    /\ rl_exited' = (cause # "shutdown")
    /\ at_close' = SlotIds(slots)
    /\ UNCHANGED <<encrypted, next_id, channel, writing, wire_out, accept_log, slots,
                   registered, outcomes, handled, consumed, inbound, now, drained,
                   cancelled, remote_read, remote_next_id, answers>>
    /\ IpcUnchangedOthers

\* after a user shutdown the read loop exits
ReadLoopExit ==
    /\ d_state = "Closing"
    /\ ~rl_exited
    /\ rl_exited' = TRUE
    /\ UNCHANGED <<d_state, encrypted, next_id, channel, writing, wire_out, accept_log,
                   slots, registered, outcomes, handled, consumed, inbound, now, drained,
                   cancelled, at_close, remote_read, remote_next_id, answers>>
    /\ IpcUnchangedOthers

\* correlator.drain_all(Closed) that fails nobody and forgets the slots
drain_all_silent(out, c) == out

\* correlator.drain_all(Closed): every outstanding waiter is failed with Closed
drain_all(out, c) == deliver_to(out, SlotIds(c), Failure("Closed"))

\* teardown, once the read loop has exited, drains the correlator
DrainAll ==
    /\ d_state = "Closing"
    /\ rl_exited
    /\ ~drained
    /\ outcomes' = drain_all(outcomes, slots)
    /\ slots' = {}
    /\ drained' = TRUE
    /\ UNCHANGED <<d_state, encrypted, next_id, channel, writing, wire_out, accept_log,
                   registered, handled, consumed, inbound, now, rl_exited, cancelled,
                   at_close, remote_read, remote_next_id, answers>>
    /\ IpcUnchangedOthers

\* teardown then triggers the context's cancellation token
CancelHandlers ==
    /\ d_state = "Closing"
    /\ drained
    /\ ~cancelled
    /\ cancelled' = TRUE
    /\ UNCHANGED <<d_state, encrypted, next_id, channel, writing, wire_out, accept_log,
                   slots, registered, outcomes, handled, consumed, inbound, now,
                   rl_exited, drained, at_close, remote_read, remote_next_id, answers>>
    /\ IpcUnchangedOthers

\* Closing -> Closed after the read loop exited, the replies are drained and
\* the handlers are cancelled
Finish ==
    /\ d_state = "Closing"
    /\ rl_exited /\ drained /\ cancelled
    /\ d_state' = "Closed"
    /\ UNCHANGED <<encrypted, next_id, channel, writing, wire_out, accept_log, slots,
                   registered, outcomes, handled, consumed, inbound, now, rl_exited,
                   drained, cancelled, at_close, remote_read, remote_next_id, answers>>
    /\ IpcUnchangedOthers

\* the dispatcher before the transport connects
IpcStart ==
    /\ d_state = "Starting"
    /\ next_id = 1
    /\ channel = <<>>
    /\ writing = NoEvent
    /\ wire_out = <<>>
    /\ accept_log = <<>>
    /\ slots = {}
    /\ registered = {}
    /\ outcomes = [k \in Ids |-> <<>>]
    /\ handled = <<>>
    /\ consumed = <<>>
    /\ inbound = <<>>
    /\ now = 0
    /\ rl_exited = FALSE
    /\ drained = FALSE
    /\ cancelled = FALSE
    /\ at_close = {}
    /\ remote_read = 0
    /\ remote_next_id = 1
    /\ answers = [k \in Ids |-> NoEvent]

IpcInit ==
    /\ WriterInit /\ wire = <<>> /\ closed = FALSE
    /\ ReaderInit /\ PayloadIdle
    /\ encrypted \in BOOLEAN
    /\ IpcStart

IpcNext ==
    \/ Connect
    \/ \E ok \in BOOLEAN : Handshake(ok)
    \/ \E name \in EmitNames : Emit(name)
    \/ \E k \in Ids : AwaitReply(k)
    \/ WriterStart
    \/ WriterFinish
    \/ RemoteDispatch
    \/ ReadLoop
    \/ Tick
    \/ ExpireDue
    \/ \E cause \in CloseCauses : Close(cause)
    \/ ReadLoopExit
    \/ DrainAll
    \/ CancelHandlers
    \/ Finish

SpecIpc == IpcInit /\ [][IpcNext]_vars

\* the teardown of a closing connection: one task running its steps in turn
Teardown == ReadLoopExit \/ DrainAll \/ CancelHandlers \/ Finish

\* the teardown task, once started, keeps being scheduled
IpcFairness == WF_vars(Teardown)

SpecIpcFair == SpecIpc /\ IpcFairness

-----------------------------------------------------------------------------
(* The read loop of an encrypted connection: the dispatcher over the         *)
(* EncryptedReadStream.  The read stream is the code's; the dispatcher and  *)
(* the teardown are modelled from spec.md 4.3 and 4.5.                      *)

\* a Running encrypted connection on which every id was emitted as "ping"
\* and the ids in waiting are awaited: the state after Connect,
\* Handshake(TRUE), Emit("ping") for each id and AwaitReply for each waiter
RunningWithWaiters(waiting) ==
    LET log == [k \in Ids |-> Event(k, "initial", 0, "ping")]
    IN /\ d_state = "Running"
       /\ encrypted = TRUE
       /\ next_id = MaxEvents + 1
       /\ channel = log
       /\ writing = NoEvent
       /\ wire_out = <<>>
       /\ accept_log = log
       /\ slots = {[id |-> k, deadline |-> ReplyTimeout] : k \in waiting}
       /\ registered = waiting
       /\ outcomes = [k \in Ids |-> <<>>]
       /\ handled = <<>>
       /\ consumed = <<>>
       /\ inbound = <<>>
       /\ now = 0
       /\ rl_exited = FALSE
       /\ drained = FALSE
       /\ cancelled = FALSE
       /\ at_close = {}
       /\ remote_read = 0
       /\ remote_next_id = 1
       /\ answers = [k \in Ids |-> NoEvent]

\* the read loop polls the encrypted read stream for the next frame
ReadLoopPolls(cap, o) ==
    /\ d_state = "Running"
    /\ lastRead.ret # "ReadyErr"
    /\ PollRead(cap, o)

\* the read loop got Ready(Err) from the stream: transport and crypto errors
\* are fatal, the dispatcher goes to Closing and the read loop exits
ReadLoopFails ==
    /\ lastRead.ret = "ReadyErr"
    /\ Close("auth_failure")

\* no reply is awaited, one is, or every emitted event is awaited
AuthInit ==
    /\ WriterInit
    /\ \E lens \in Wires : wire = [i \in 1..Len(lens) |-> SentPackage(i, lens[i])]
    /\ closed \in BOOLEAN
    /\ ReaderInit /\ PayloadIdle
    /\ \E waiting \in {{}, {1}, Ids} : RunningWithWaiters(waiting)

AuthNext ==
    \/ \E cap \in ReadCaps, o \in Progress : ReadLoopPolls(cap, o)
    \/ \E i \in 1..MaxPackages : Tamper(i)
    \/ ReadLoopFails
    \/ Tick
    \/ ExpireDue
    \/ DrainAll
    \/ CancelHandlers
    \/ Finish

\* the read loop acts on the error it got, and the teardown task runs
AuthFairness == WF_vars(ReadLoopFails) /\ WF_vars(Teardown)

SpecAuth == AuthInit /\ [][AuthNext]_vars /\ AuthFairness


-----------------------------------------------------------------------------
(* Properties of the encrypted write stream *)

\* the plaintext of the packages on the wire, concatenated in wire order
RECURSIVE PlainOf(_)
PlainOf(w) == IF w = <<>> THEN <<>>
              ELSE Put(PlainOf(SubSeq(w, 1, Len(w) - 1)), w[Len(w)].ciphertext.enc)

WirePlaintext == PlainOf(wire)

\* every byte of a is a byte of b
CoveredBy(a, b) ==
    \A i \in 1..Len(a) : \E j \in 1..Len(b) :
        /\ b[j].id = a[i].id
        /\ b[j].lo <= a[i].lo
        /\ a[i].hi <= b[j].hi

FlushSucceeded == lastCall.op = "flush" /\ lastCall.ret = "ReadyOk"

TakePanics == {"poll_write: inner.take().unwrap()", "poll_write: cipher.take().unwrap()",
               "poll_flush: inner.take().unwrap()", "poll_flush: cipher.take().unwrap()",
               "poll_shutdown: inner.take().unwrap()",
               "poll_read: inner.take().unwrap()", "poll_read: cipher.take().unwrap()"}

WriteFuturesInFlight ==
    (IF fut_write.st # "None" THEN 1 ELSE 0) + (IF fut_flush.st # "None" THEN 1 ELSE 0)
    + (IF fut_shutdown.st # "None" THEN 1 ELSE 0)

\* C1: once a poll_flush has returned Ready(Ok) (no call has failed, and every
\* call that returned Pending was polled again with the same buffer), the
\* plaintext of the packages written to the inner writer is exactly the bytes
\* accepted by poll_write: none missing, duplicated or reordered.
C1_EncryptedRoundTrip ==
    (FlushSucceeded /\ ~errored /\ ~abandoned) => WirePlaintext = accepted

C8_FlushForcesAllOut ==
    (FlushSucceeded /\ ~errored) =>
        /\ buffer = <<>>
        /\ CoveredBy(accepted, WirePlaintext)
        /\ flushed = Len(wire)

\* C9: the inner writer's shutdown is started only after a flush returned
\* success with the plaintext buffer empty; when the flush fails,
\* poll_shutdown returns the error and starts no shutdown.
C9_ShutdownAfterFlush ==
    [][ /\ (fut_shutdown.st = "None" /\ fut_shutdown'.st # "None")
            => (buffer' = <<>> /\ fut_flush'.st = "None" /\ flushed' = Len(wire'))
        /\ (lastCall'.op = "shutdown" /\ lastCall'.ret = "ReadyErr" /\ fut_shutdown.st = "None")
            => fut_shutdown'.st = "None"
      ]_vars

\* the read side of C10: the inner reader and the cipher are absent exactly
\* while the one read future is in flight, and poll_read never takes them absent
ReadOwnership ==
    /\ r_panic \notin TakePanics
    /\ (fut = "Some") <=> ~r_inner
    /\ r_inner <=> r_cipher

\* C10: at most one write-side future and one read-side future is in flight,
\* and no call takes the inner half or the cipher while an in-flight future
\* holds them.
C10_ExclusiveOwnership ==
    /\ WriteFuturesInFlight <= 1
    /\ w_panic \notin TakePanics
    /\ ReadOwnership

-----------------------------------------------------------------------------
(* Properties of the dispatcher, the reply correlator and the writer task *)

\* the read loop decoded event e while the correlator held a slot for k
DecodedWithSlot(e, k) ==
    \E i \in 1..Len(consumed) : consumed[i].ev = e /\ k \in consumed[i].slots

\* the name the remote peer answers with: handle_ping's "pong", or the
\* conventional "error" for an event it has no handler for
AnswerName(k) == IF accept_log[k].name = "ping" THEN "pong" ELSE "error"

C4_ResolvedOnce ==
    /\ \A k \in Ids :
        /\ Len(outcomes[k]) <= 1
        /\ k \in registered => ((k \in SlotIds(slots)) <=> (outcomes[k] = <<>>))
        /\ k \notin registered => (outcomes[k] = <<>> /\ k \notin SlotIds(slots))
        /\ \A i \in 1..Len(outcomes[k]) :
               outcomes[k][i].kind \in {"Response", "Timeout", "Closed"}
    /\ \A s1, s2 \in slots : s1.id = s2.id => s1 = s2
    /\ d_state = "Closed" => \A k \in registered : Len(outcomes[k]) = 1

\* two waiters were resolved, one by the read loop and one by the sweeper or
\* by teardown, and both slots are gone
C4_Witness ==
    /\ registered = {1, 2}
    /\ slots = {}
    /\ \E k \in registered : outcomes[k] # <<>> /\ outcomes[k][1].kind = "Response"
    /\ \E k \in registered :
           outcomes[k] # <<>> /\ outcomes[k][1].kind \in {"Timeout", "Closed"}

C6_SubmissionOrder == IsPrefix(wire_out, Frames(accept_log))

\* two producers (the user's emit and the read loop's error response) were
\* both accepted while the channel held an event, and both frames are on the wire
C6_Witness ==
    /\ Len(wire_out) = 4
    /\ {accept_log[i].event_type : i \in 1..Len(accept_log)} = {"initial", "response"}
    /\ remote_read < 2

-----------------------------------------------------------------------------
(* Properties of the read loop over the encrypted read stream *)

\* the packages the inner reader has consumed that failed authentication
FailedPackages == {i \in 1..rpos : ~wire[i].ciphertext.auth}

\* no byte of a package that failed authentication is in a caller buffer or
\* in the residual plaintext
NoFailedPlaintext ==
    /\ \A j \in 1..Len(yielded) : yielded[j].id \notin FailedPackages
    /\ \A j \in 1..Len(remaining) : remaining[j].id \notin FailedPackages

Decrypted == PlainOf(SelectSeq(SubSeq(wire, 1, rpos), LAMBDA w : w.ciphertext.auth))

\* C12: the bytes put into the caller buffers, in call order, are a prefix of
\* the decrypted plaintext in arrival order, and what was decrypted and not
\* yet put into a caller buffer is exactly the content of `remaining`: the
\* residue of a package is delivered before any byte of a later package.
C12_ResidualPersists ==
    /\ yielded = CopyToBytes(Decrypted, BLen(yielded))
    /\ Put(yielded, remaining) = Decrypted

\* one call was given the residue of the first package and then bytes of the
\* second
C12_Witness ==
    /\ Len(lastRead.filled) = 2
    /\ lastRead.filled[1].id = 1 /\ lastRead.filled[1].lo > 0
    /\ lastRead.filled[2].id = 2

\* C13: a call on the write stream or on the read stream returns Pending
\* only after it polled an inner future with the caller's waker and that
\* future returned Pending in the same call.
C13_NoLostWakeup ==
    /\ lastCall.ret = "Pending" => w_waker
    /\ lastRead.ret = "Pending" => r_waker

\* the read-stream half of C13 alone
PendingReadHasWaker == lastRead.ret = "Pending" => r_waker

\* C14: over an inner writer that completes every operation, and with
\* poll_shutdown polled again only after a wake-up, a shutdown that has begun
\* eventually returns Ready(Ok).
C14_ShutdownTerminates ==
    (lastCall.op = "shutdown") ~> (lastCall.op = "shutdown" /\ lastCall.ret = "ReadyOk")

\* a flush is asked for with nothing buffered and no flush in flight
NothingToFlush == buffer = <<>> /\ fut_flush.st = "None"

\* C15: poll_flush, and the flush step of a poll_shutdown that has no
\* shutdown in flight, called with nothing buffered and no flush in flight,
\* does not abort and emits no package, and poll_flush returns Ready(Ok).
C15_EmptyFlushNoop ==
    [][/\ (NothingToFlush /\ \E o \in FlushOutcome : PollFlush(o)) =>
            (w_panic' = "no" /\ wire' = wire /\ lastCall'.ret = "ReadyOk")
       /\ (NothingToFlush /\ fut_shutdown.st = "None" /\ \E o \in InnerOutcome : PollShutdown(o)) =>
            (w_panic' = "no" /\ wire' = wire)]_vars

\* every byte the write stream holds or has written: the packages on the
\* wire, the plaintext of the futures in flight, and the plaintext buffer
HeldBytes == PlainOf(wire) \o fut_write.pt \o fut_flush.pt \o buffer

\* C16: the bytes of a caller buffer are taken into the write stream at most
\* once, however often poll_write is polled with that buffer: no byte is
\* held twice among the wire, the futures in flight and the plaintext
\* buffer.
C16_PendingWriteAcceptsNothing ==
    \A i, j \in 1..Len(HeldBytes) :
        (i # j /\ HeldBytes[i].id = HeldBytes[j].id) =>
            (HeldBytes[i].hi <= HeldBytes[j].lo \/ HeldBytes[j].hi <= HeldBytes[i].lo)

\* the read loop decoded this response while its reference_id had no slot
Slotless(c) == c.ev.event_type = "response" /\ c.ev.reference_id \notin c.slots

\* C17: a response whose reference_id has no slot when the read loop decodes
\* it goes through the handler lookup like a fresh event: it is handed to the
\* handler registered for its name, or answered with the UnknownEvent error
\* response when there is none; it is not dropped and reaches no waiter.
C17_SlotlessResponseRouted ==
    \A i \in 1..Len(consumed) :
        Slotless(consumed[i]) =>
            LET e == consumed[i].ev
            IN /\ IF e.name \in LocalHandlers
                  THEN \E j \in 1..Len(handled) : handled[j] = e
                  ELSE \E j \in 1..Len(accept_log) :
                          /\ accept_log[j].event_type = "response"
                          /\ accept_log[j].reference_id = e.id
                          /\ accept_log[j].name = "error"
               /\ \A k \in Ids : \A n \in 1..Len(outcomes[k]) : outcomes[k][n] # Response(e)

\* a "pong" arrived after the slot of its waiter had expired and went to the
\* "pong" handler
C17_Witness ==
    \E i \in 1..Len(consumed) :
        /\ Slotless(consumed[i])
        /\ consumed[i].ev.reference_id \in registered
        /\ outcomes[consumed[i].ev.reference_id] = <<Failure("Timeout")>>
        /\ \E j \in 1..Len(handled) : handled[j] = consumed[i].ev

\* C18: no completed future stays in its slot to be polled again, and with
\* no future in flight the stream holds its inner half and its cipher.
C18_SlotsCleared ==
    /\ fut # "Done"
    /\ r_panic # "poll_read: future polled after completion"
    /\ fut = "None" => (r_inner /\ r_cipher)
    /\ (fut_write.st = "None" /\ fut_flush.st = "None" /\ fut_shutdown.st = "None"
          /\ w_panic = "no") => (w_inner /\ w_cipher)

\* the write-stream half of C18 alone
WriteSlotsCleared ==
    (fut_write.st = "None" /\ fut_flush.st = "None" /\ fut_shutdown.st = "None"
      /\ w_panic = "no") => (w_inner /\ w_cipher)

\* C19: a poll_read that returns Pending has put no byte into the caller
\* buffer.
C19_PendingReadDeliversNothing == lastRead.ret = "Pending" => lastRead.filled = <<>>

-----------------------------------------------------------------------------
(* Properties of the tandem payload *)

\* n as 8 bytes, most significant first
BigEndian8(n) == [i \in 1..8 |-> IF i <= 4 THEN 0
                                 ELSE CASE i = 5 -> (n \div 16777216) % 256
                                        [] i = 6 -> (n \div 65536) % 256
                                        [] i = 7 -> (n \div 256) % 256
                                        [] OTHER -> n % 256]

\* the layout of a tandem blob
TandemLayout(P) ==
    LET e1 == to_payload_bytes(P.load1)
        e2 == to_payload_bytes(P.load2)
    IN BigEndian8(Len(e1)) \o e1 \o BigEndian8(Len(e2)) \o e2

\* the blob ends before a length prefix or before the bytes a prefix declares
ShorterThanDeclared(r) ==
    LET l1 == read_u64(r)
    IN \/ ~l1.ok
       \/ l1.huge
       \/ Len(l1.rest) < l1.val
       \/ LET l2 == read_u64(SubSeq(l1.rest, l1.val + 1, Len(l1.rest)))
          IN ~l2.ok \/ l2.huge \/ Len(l2.rest) < l2.val

\* the encoding has the tandem layout
LayoutAsClaimed == p_pc = "encoded" => p_bytes = TandemLayout(p_in)

\* a whole blob is split at the boundaries of the layout
SplitAsClaimed ==
    p_pc = "decoded" =>
        /\ p_out.ok
        /\ p_out.val.load1 = p_in.load1
        /\ p_out.val.load2 = p_in.load2

\* C20: the encoding of a tandem is length, first half, length, second half
\* with 8-byte big-endian lengths of the encoded halves; decoding splits a
\* whole blob at these boundaries, and returns an error for a blob shorter
\* than the lengths it declares.
C20_TandemLayout ==
    /\ LayoutAsClaimed
    /\ SplitAsClaimed
    /\ (p_pc = "decoded damaged" /\ ShorterThanDeclared(p_bytes)) => p_out = Failed

=============================================================================
